---- MODULE Spec2Model ----
(***************************************************************************)
(* Vecgrid<T> (src/src/lib.rs): a rectangular grid stored in one row-major *)
(* Vec<T>, with its two dimensions.  The model keeps the three fields of   *)
(* the struct, the position of the single caller, the last call with its   *)
(* outcome and the grid as it was before that call; when the caller makes  *)
(* a call right on the return of another, the earlier call is kept too.    *)
(*                                                                         *)
(* usize arithmetic is checked arithmetic: a subtraction below zero and a  *)
(* division by zero panic, as in every build with overflow checks (the     *)
(* profile the tests of the repository run under).  A panic unwinds out of *)
(* the call: the caller's position becomes "aborted" and nothing follows.  *)
(***************************************************************************)
EXTENDS Integers, Sequences, FiniteSets, TLC

VARIABLES vecgrid, num_rows, num_columns, pc, last, prev, earlier

vars == <<vecgrid, num_rows, num_columns, pc, last, prev, earlier>>

(* ------------------------------ bounds -------------------------------- *)

MaxRows == 3

MaxColumns == 2

MaxNewRows == 2

Elem == {1, 2}

SeqsUpTo(S, n) == UNION {[1..k -> S] : k \in 0..n}

InputRows == SeqsUpTo(Elem, MaxColumns)

RowIndex == 0..(MaxRows + 1)

ColumnIndex == 0..MaxColumns

LinearIndex == 0..(MaxRows * MaxColumns)

(* --------------------------- result values ---------------------------- *)

Ok == <<"Ok">>

IndicesOutOfBounds(row, column) == <<"IndicesOutOfBounds", row, column>>

IndexOutOfBounds(index) == <<"IndexOutOfBounds", index>>

DimensionMismatch == <<"DimensionMismatch">>

NotEnoughElements == <<"NotEnoughElements">>

Panic == <<"Panic">>

None == <<"None">>

Some(x) == <<"Some", x>>

(* ------------------------------ the grid ------------------------------ *)

Vecgrid(v, r, c) == [vecgrid |-> v, num_rows |-> r, num_columns |-> c]

Self == Vecgrid(vecgrid, num_rows, num_columns)

num_elements(self) == self.num_rows * self.num_columns

row_len(self) == self.num_columns

column_len(self) == self.num_rows

\* get_index that lets the column run up to num_columns
get_index_column_bound(self, row, column) ==
  IF row < self.num_rows /\ column <= self.num_columns
    THEN Some(row * self.num_columns + column)
    ELSE None

\* get_index with the stride of the other major order
get_index_stride(self, row, column) ==
  IF row < self.num_rows /\ column < self.num_columns
    THEN Some(row * column_len(self) + column)
    ELSE None

get_index(self, row, column) ==
  IF row < self.num_rows /\ column < self.num_columns
    THEN Some(row * row_len(self) + column)
    ELSE None

\* &self.vecgrid[index]: indexing a Vec panics beyond its length
VecIndex(v, index) == IF index < Len(v) THEN Some(v[index + 1]) ELSE Panic

get(self, row, column) ==
  LET i == get_index(self, row, column)
  IN  IF i = None THEN None ELSE VecIndex(self.vecgrid, i[2])

get_row_major(self, index) ==
  IF index < Len(self.vecgrid) THEN Some(self.vecgrid[index + 1]) ELSE None

get_column_major(self, index) ==
  IF self.num_rows = 0
    THEN Panic
    ELSE get(self, index % self.num_rows, index \div self.num_rows)

get_mut(self, row, column) ==
  LET i == get_index(self, row, column)
  IN  IF i = None THEN None
      ELSE IF i[2] < Len(self.vecgrid) THEN Some(i[2]) ELSE Panic

get_mut_row_major(self, index) ==
  IF index < Len(self.vecgrid) THEN Some(index) ELSE None

\* get_mut_column_major with quotient and remainder swapped
get_mut_column_major_swapped(self, index) ==
  IF self.num_rows = 0
    THEN Panic
    ELSE get_mut(self, index \div self.num_rows, index % self.num_rows)

get_mut_column_major(self, index) ==
  IF self.num_rows = 0
    THEN Panic
    ELSE get_mut(self, index % self.num_rows, index \div self.num_rows)

\* *location = element, where location is Some(offset), None or a panic
Assign(self, location, element, err) ==
  IF location = Panic THEN [self |-> self, res |-> Panic]
  ELSE IF location = None THEN [self |-> self, res |-> err]
  ELSE [self |-> Vecgrid([self.vecgrid EXCEPT ![location[2] + 1] = element],
                         self.num_rows, self.num_columns),
        res |-> Ok]

set(self, row, column, element) ==
  Assign(self, get_mut(self, row, column), element,
         IndicesOutOfBounds(row, column))

set_row_major(self, index, element) ==
  Assign(self, get_mut_row_major(self, index), element,
         IndexOutOfBounds(index))

set_column_major(self, index, element) ==
  Assign(self, get_mut_column_major(self, index), element,
         IndexOutOfBounds(index))

\* Index::index: self.get(row, column).unwrap_or_else(|| panic!(..))
op_index(self, row, column) ==
  LET e == get(self, row, column)
  IN  IF e = None \/ e = Panic
        THEN [res |-> Panic, val |-> <<>>]
        ELSE [res |-> Ok, val |-> <<e[2]>>]

\* IndexMut::index_mut: the offset of the cell the reference points to
op_index_mut(self, row, column) ==
  LET location == get_mut(self, row, column)
  IN  IF location = None \/ location = Panic
        THEN [res |-> Panic, val |-> <<>>]
        ELSE [res |-> Ok, val |-> <<location[2]>>]

(* ----------------------- Vec::splice, Vec::drain ----------------------- *)

RECURSIVE Flatten(_)
Flatten(rows) ==
  IF rows = <<>> THEN <<>> ELSE Head(rows) \o Flatten(Tail(rows))

\* self.vecgrid.splice(i..i, items): panics when i is beyond the length
splice(v, i, items) ==
  IF i > Len(v)
    THEN [panic |-> TRUE, vec |-> v]
    ELSE [panic |-> FALSE,
          vec |-> SubSeq(v, 1, i) \o items \o SubSeq(v, i + 1, Len(v))]

\* self.vecgrid.drain(start..end): panics when start > end or end > len
drain(v, start, end) ==
  IF start > end \/ end > Len(v)
    THEN [panic |-> TRUE, vec |-> v]
    ELSE [panic |-> FALSE,
          vec |-> SubSeq(v, 1, start) \o SubSeq(v, end + 1, Len(v))]

(* ------------------------ row insertion, removal ----------------------- *)

\* insert_row that takes the row index for the buffer offset
insert_row_offset(self, row, at) ==
  IF Len(row) # self.num_columns
    THEN [self |-> self, res |-> DimensionMismatch]
  ELSE IF ~(at < self.num_rows)
    THEN [self |-> self, res |-> IndexOutOfBounds(at)]
  ELSE LET s == splice(self.vecgrid, at, row)
       IN  IF s.panic
             THEN [self |-> self, res |-> Panic]
             ELSE [self |-> Vecgrid(s.vec, self.num_rows + 1, self.num_columns),
                   res |-> Ok]

\* insert_row with the bound of insert_rows
insert_row_bound(self, row, at) ==
  IF Len(row) # self.num_columns
    THEN [self |-> self, res |-> DimensionMismatch]
  ELSE IF ~(at < self.num_rows + 1)
    THEN [self |-> self, res |-> IndexOutOfBounds(at)]
  ELSE LET s == splice(self.vecgrid, at * row_len(self), row)
       IN  IF s.panic
             THEN [self |-> self, res |-> Panic]
             ELSE [self |-> Vecgrid(s.vec, self.num_rows + 1, self.num_columns),
                   res |-> Ok]

insert_row(self, row, at) ==
  IF Len(row) # self.num_columns
    THEN [self |-> self, res |-> DimensionMismatch]
  ELSE IF ~(at < self.num_rows)
    THEN [self |-> self, res |-> IndexOutOfBounds(at)]
  ELSE LET i == at * row_len(self)
           s == splice(self.vecgrid, i, row)
       IN  IF s.panic
             THEN [self |-> self, res |-> Panic]
             ELSE [self |-> Vecgrid(s.vec, self.num_rows + 1, self.num_columns),
                   res |-> Ok]

\* insert_rows that checks each row as it splices it: the rows before the
\* first one of the wrong length are already in the grid when it fails
insert_rows_lazy_check(self, rows, at) ==
  LET bad == {k \in 1..Len(rows) : Len(rows[k]) # self.num_columns}
      first == CHOOSE k \in bad : \A j \in bad : k <= j
      done == SubSeq(rows, 1, first - 1)
  IN  IF ~(at < self.num_rows + 1)
        THEN [self |-> self, res |-> IndexOutOfBounds(at)]
      ELSE IF bad # {}
        THEN [self |-> Vecgrid(splice(self.vecgrid, at * row_len(self),
                                      Flatten(done)).vec,
                               self.num_rows + Len(done), self.num_columns),
              res |-> DimensionMismatch]
      ELSE [self |-> Vecgrid(splice(self.vecgrid, at * row_len(self),
                                    Flatten(rows)).vec,
                             self.num_rows + Len(rows), self.num_columns),
            res |-> Ok]

insert_rows(self, rows, at) ==
  IF ~(\A k \in 1..Len(rows) : Len(rows[k]) = self.num_columns)
    THEN [self |-> self, res |-> DimensionMismatch]
  ELSE IF ~(at < self.num_rows + 1)
    THEN [self |-> self, res |-> IndexOutOfBounds(at)]
  ELSE LET i == at * row_len(self)
           num_new_rows == Len(rows)
           s == splice(self.vecgrid, i, Flatten(rows))
       IN  IF s.panic
             THEN [self |-> self, res |-> Panic]
             ELSE [self |-> Vecgrid(s.vec, self.num_rows + num_new_rows,
                                    self.num_columns),
                   res |-> Ok]

\* append_rows that inserts at the front
append_rows_front(self, rows) == insert_rows(self, rows, 0)

append_rows(self, rows) == insert_rows(self, rows, self.num_rows)

\* the shared shape of remove_rows, for a buffer range and a row count
remove_rows_with(self, at, n, start, end, removed) ==
  IF at > self.num_rows /\ at + n > self.num_rows + 1
    THEN [self |-> self, res |-> IndicesOutOfBounds(at, at + n)]
  ELSE LET d == drain(self.vecgrid, start, end)
       IN  IF d.panic
             THEN [self |-> self, res |-> Panic]
           ELSE IF removed > self.num_rows
             THEN [self |-> Vecgrid(d.vec, self.num_rows, self.num_columns),
                   res |-> Panic]
           ELSE [self |-> Vecgrid(d.vec, self.num_rows - removed,
                                  self.num_columns),
                 res |-> Ok]

\* remove_rows that counts one removed row whatever n is
remove_rows_count(self, at, n) ==
  remove_rows_with(self, at, n, row_len(self) * at,
                   row_len(self) * at + n * row_len(self), 1)

\* remove_rows that starts draining at the row index
remove_rows_start(self, at, n) ==
  remove_rows_with(self, at, n, at, at + n * row_len(self), n)

\* remove_rows that drains n elements instead of n rows
remove_rows_end(self, at, n) ==
  remove_rows_with(self, at, n, row_len(self) * at, row_len(self) * at + n, n)

remove_rows(self, at, n) ==
  IF at > self.num_rows /\ at + n > self.num_rows + 1
    THEN [self |-> self, res |-> IndicesOutOfBounds(at, at + n)]
  ELSE LET start == row_len(self) * at
           end == start + n * row_len(self)
           d == drain(self.vecgrid, start, end)
       IN  IF d.panic
             THEN [self |-> self, res |-> Panic]
           ELSE IF n > self.num_rows
             THEN [self |-> Vecgrid(d.vec, self.num_rows, self.num_columns),
                   res |-> Panic]
           ELSE [self |-> Vecgrid(d.vec, self.num_rows - n, self.num_columns),
                 res |-> Ok]

remove_row(self, at) == remove_rows(self, at, 1)

(* ----------------------------- construction ---------------------------- *)

from_rows(rows) ==
  LET first_len == IF Len(rows) > 0 THEN Len(rows[1]) ELSE 0
  IN  append_rows(Vecgrid(<<>>, 0, first_len), rows)

\* free function: (0..num_rows).flat_map(|row| (0..num_columns).map(..))
indices_row_major(nr, nc) ==
  Flatten([row \in 1..nr |-> [column \in 1..nc |-> <<row - 1, column - 1>>]])

\* indices_column_major with the two ranges nested the other way round
indices_column_major_nested(nr, nc) ==
  Flatten([row \in 1..nr |-> [column \in 1..nc |-> <<row - 1, column - 1>>]])

\* free function: (0..num_columns).flat_map(|column| (0..num_rows).map(..))
indices_column_major(nr, nc) ==
  Flatten([column \in 1..nc |-> [row \in 1..nr |-> <<row - 1, column - 1>>]])

\* from_columns with the two dimensions the wrong way round
from_columns_swapped(columns) ==
  LET first_len == IF Len(columns) > 0 THEN Len(columns[1]) ELSE 0
      idx == indices_row_major(first_len, Len(columns))
  IN  IF ~(\A k \in 1..Len(columns) : Len(columns[k]) = first_len)
        THEN [self |-> Vecgrid(<<>>, 0, 0), res |-> DimensionMismatch]
        ELSE [self |-> Vecgrid([k \in 1..Len(idx) |->
                                  columns[idx[k][2] + 1][idx[k][1] + 1]],
                               Len(columns), first_len),
              res |-> Ok]

from_columns(columns) ==
  LET first_len == IF Len(columns) > 0 THEN Len(columns[1]) ELSE 0
      idx == indices_row_major(first_len, Len(columns))
  IN  IF ~(\A k \in 1..Len(columns) : Len(columns[k]) = first_len)
        THEN [self |-> Vecgrid(<<>>, 0, 0), res |-> DimensionMismatch]
        ELSE [self |-> Vecgrid([k \in 1..Len(idx) |->
                                  columns[idx[k][2] + 1][idx[k][1] + 1]],
                               first_len, Len(columns)),
              res |-> Ok]

\* from_row_major that only rejects a buffer that is too short
from_row_major_short(elements, nr, nc) ==
  IF nr * nc > Len(elements)
    THEN [self |-> Vecgrid(<<>>, 0, 0), res |-> DimensionMismatch]
    ELSE [self |-> Vecgrid(elements, nr, nc), res |-> Ok]

from_row_major(elements, nr, nc) ==
  IF nr * nc # Len(elements)
    THEN [self |-> Vecgrid(<<>>, 0, 0), res |-> DimensionMismatch]
    ELSE [self |-> Vecgrid(elements, nr, nc), res |-> Ok]

\* from_column_major that reads the input with the row-major offset
from_column_major_row_index(elements, nr, nc) ==
  LET idx == indices_row_major(nr, nc)
  IN  IF nr * nc # Len(elements)
        THEN [self |-> Vecgrid(<<>>, 0, 0), res |-> DimensionMismatch]
        ELSE [self |-> Vecgrid([k \in 1..Len(idx) |->
                                  elements[idx[k][1] * nc + idx[k][2] + 1]],
                               nr, nc),
              res |-> Ok]

from_column_major(elements, nr, nc) ==
  LET idx == indices_row_major(nr, nc)
  IN  IF nr * nc # Len(elements)
        THEN [self |-> Vecgrid(<<>>, 0, 0), res |-> DimensionMismatch]
        ELSE [self |-> Vecgrid([k \in 1..Len(idx) |->
                                  elements[idx[k][2] * nr + idx[k][1] + 1]],
                               nr, nc),
              res |-> Ok]

filled_with(element, nr, nc) ==
  [self |-> Vecgrid([k \in 1..(nr * nc) |-> element], nr, nc), res |-> Ok]

\* the generator is the sequence of values its successive calls return;
\* calls is the number of times it was invoked
filled_by_row_major(generator, nr, nc) ==
  LET total_len == nr * nc
  IN  [self |-> Vecgrid([k \in 1..total_len |-> generator[k]], nr, nc),
       res |-> Ok, calls |-> total_len]

\* filled_by_column_major that stores the generated values as they come
filled_by_column_major_direct(generator, nr, nc) ==
  LET total_len == nr * nc
  IN  [self |-> Vecgrid([k \in 1..total_len |-> generator[k]], nr, nc),
       res |-> Ok, calls |-> total_len]

filled_by_column_major(generator, nr, nc) ==
  LET total_len == nr * nc
      vecgrid_column_major == [k \in 1..total_len |-> generator[k]]
      out == from_column_major(vecgrid_column_major, nr, nc)
  IN  [self |-> out.self,
       res |-> IF out.res = Ok THEN Ok ELSE Panic,
       calls |-> total_len]

\* iterator.take(n).collect(): the items pulled from the producer
take(iterator, n) ==
  SubSeq(iterator, 1, IF n < Len(iterator) THEN n ELSE Len(iterator))

from_iter_row_major(iterator, nr, nc) ==
  LET total_len == nr * nc
      taken == take(iterator, total_len)
  IN  IF Len(taken) # total_len
        THEN [self |-> Vecgrid(<<>>, 0, 0), res |-> NotEnoughElements,
              pulled |-> Len(taken)]
        ELSE [self |-> Vecgrid(taken, nr, nc), res |-> Ok,
              pulled |-> Len(taken)]

\* from_iter_column_major that passes from_column_major's error on
from_iter_column_major_no_map_err(iterator, nr, nc) ==
  LET total_len == nr * nc
      taken == take(iterator, total_len)
      out == from_column_major(taken, nr, nc)
  IN  [self |-> out.self, res |-> out.res, pulled |-> Len(taken)]

from_iter_column_major(iterator, nr, nc) ==
  LET total_len == nr * nc
      taken == take(iterator, total_len)
      out == from_column_major(taken, nr, nc)
  IN  [self |-> out.self,
       res |-> IF out.res = Ok THEN Ok ELSE NotEnoughElements,
       pulled |-> Len(taken)]

(* ------------------------------- views --------------------------------- *)

\* row_iter(row_index): the elements of one row, or the error
row_iter(self, row_index) ==
  LET start == get_index(self, row_index, 0)
  IN  IF start = None
        THEN [res |-> IndicesOutOfBounds(row_index, 0), val |-> <<>>]
      ELSE IF start[2] + row_len(self) > Len(self.vecgrid)
        THEN [res |-> Panic, val |-> <<>>]
      ELSE [res |-> Ok,
            val |-> SubSeq(self.vecgrid, start[2] + 1,
                           start[2] + row_len(self))]

\* rows_iter(): every row_iter(row_index) is unwrapped with expect()
rows_iter(self) ==
  IF \E r \in 0..(self.num_rows - 1) : row_iter(self, r).res # Ok
    THEN [res |-> Panic, val |-> <<>>]
    ELSE [res |-> Ok,
          val |-> [k \in 1..self.num_rows |-> row_iter(self, k - 1).val]]

as_rows(self) == rows_iter(self)

\* elements_column_major_iter that walks the indices in row-major order
elements_column_major_iter_row_order(self) ==
  LET idx == indices_row_major(self.num_rows, self.num_columns)
  IN  IF \E k \in 1..Len(idx) : op_index(self, idx[k][1], idx[k][2]).res # Ok
        THEN [res |-> Panic, val |-> <<>>]
        ELSE [res |-> Ok,
              val |-> [k \in 1..Len(idx) |->
                         op_index(self, idx[k][1], idx[k][2]).val[1]]]

\* elements_column_major_iter(): indices_column_major() mapped through
\* Index, which panics on a pair out of bounds
elements_column_major_iter(self) ==
  LET idx == indices_column_major(self.num_rows, self.num_columns)
  IN  IF \E k \in 1..Len(idx) : op_index(self, idx[k][1], idx[k][2]).res # Ok
        THEN [res |-> Panic, val |-> <<>>]
        ELSE [res |-> Ok,
              val |-> [k \in 1..Len(idx) |->
                         op_index(self, idx[k][1], idx[k][2]).val[1]]]

as_column_major(self) == elements_column_major_iter(self)

\* column_iter(column_index): the elements of one column, or the error
column_iter(self, column_index) ==
  IF column_index >= self.num_columns
    THEN [res |-> IndicesOutOfBounds(0, column_index), val |-> <<>>]
  ELSE IF \E row \in 0..(column_len(self) - 1) :
            op_index(self, row, column_index).res # Ok
    THEN [res |-> Panic, val |-> <<>>]
  ELSE [res |-> Ok,
        val |-> [k \in 1..column_len(self) |->
                   op_index(self, k - 1, column_index).val[1]]]

\* columns_iter(): every column_iter(column_index) is unwrapped with expect()
columns_iter(self) ==
  IF \E c \in 0..(self.num_columns - 1) : column_iter(self, c).res # Ok
    THEN [res |-> Panic, val |-> <<>>]
    ELSE [res |-> Ok,
          val |-> [k \in 1..self.num_columns |-> column_iter(self, k - 1).val]]

as_columns(self) == columns_iter(self)

\* row_iter_mut(row_index): the offsets of the cells of one row, in the
\* order their references are yielded, or the error
row_iter_mut(self, row_index) ==
  LET start == get_index(self, row_index, 0)
  IN  IF start = None
        THEN [res |-> IndicesOutOfBounds(row_index, 0), val |-> <<>>]
      ELSE IF start[2] + row_len(self) > Len(self.vecgrid)
        THEN [res |-> Panic, val |-> <<>>]
      ELSE [res |-> Ok,
            val |-> [k \in 1..row_len(self) |-> start[2] + k - 1]]

\* column_iter_mut(column_index): vecgrid.iter_mut().skip(column_index)
\* .step_by(num_columns), as the offsets it yields; step_by(0) panics
column_iter_mut(self, column_index) ==
  IF column_index >= self.num_columns
    THEN [res |-> IndicesOutOfBounds(0, column_index), val |-> <<>>]
  ELSE IF self.num_columns = 0
    THEN [res |-> Panic, val |-> <<>>]
  ELSE LET step == self.num_columns
           left == Len(self.vecgrid) - column_index
           count == IF left <= 0 THEN 0 ELSE (left - 1) \div step + 1
       IN  [res |-> Ok,
            val |-> [k \in 1..count |-> column_index + (k - 1) * step]]

(* ------------------ the iteration shapes, front and back ---------------- *)
(* A shape is the list of what the iterator yields when it is consumed     *)
(* with next() to its end; its _rev form is the list next_back() yields.   *)
(* Mutable shapes yield references: they are lists of buffer offsets.      *)

\* Range<usize>: next() counts lo up, next_back() counts hi down
range(lo, hi) == [k \in 1..(IF hi > lo THEN hi - lo ELSE 0) |-> lo + k - 1]

range_rev(lo, hi) == [k \in 1..(IF hi > lo THEN hi - lo ELSE 0) |-> hi - k]

\* FlatMap::next_back over the two ranges: the last outer item first, and
\* within it the last inner item first
indices_row_major_rev(nr, nc) ==
  Flatten([row \in 1..nr |-> [column \in 1..nc |-> <<nr - row, nc - column>>]])

indices_column_major_rev(nr, nc) ==
  Flatten([column \in 1..nc |-> [row \in 1..nr |-> <<nr - row, nc - column>>]])

\* a list of pairs mapped through Index
IndexAll(self, idx) ==
  IF \E k \in 1..Len(idx) : op_index(self, idx[k][1], idx[k][2]).res # Ok
    THEN [res |-> Panic, val |-> <<>>]
    ELSE [res |-> Ok,
          val |-> [k \in 1..Len(idx) |->
                     op_index(self, idx[k][1], idx[k][2]).val[1]]]

\* a list of pairs mapped to (pair, element) through Index
EnumerateAll(self, idx) ==
  IF \E k \in 1..Len(idx) : op_index(self, idx[k][1], idx[k][2]).res # Ok
    THEN [res |-> Panic, val |-> <<>>]
    ELSE [res |-> Ok,
          val |-> [k \in 1..Len(idx) |->
                     <<idx[k], op_index(self, idx[k][1], idx[k][2]).val[1]>>]]

elements_row_major_iter(self) == [res |-> Ok, val |-> self.vecgrid]

elements_row_major_iter_rev(self) ==
  [res |-> Ok,
   val |-> [k \in 1..Len(self.vecgrid) |->
              self.vecgrid[Len(self.vecgrid) - k + 1]]]

elements_row_major_iter_mut(self) ==
  [res |-> Ok, val |-> range(0, Len(self.vecgrid))]

elements_row_major_iter_mut_rev(self) ==
  [res |-> Ok, val |-> range_rev(0, Len(self.vecgrid))]

elements_column_major_iter_rev(self) ==
  IndexAll(self, indices_column_major_rev(self.num_rows, self.num_columns))

enumerate_row_major(self) ==
  EnumerateAll(self, indices_row_major(self.num_rows, self.num_columns))

enumerate_row_major_rev(self) ==
  EnumerateAll(self, indices_row_major_rev(self.num_rows, self.num_columns))

enumerate_column_major(self) ==
  EnumerateAll(self, indices_column_major(self.num_rows, self.num_columns))

enumerate_column_major_rev(self) ==
  EnumerateAll(self, indices_column_major_rev(self.num_rows, self.num_columns))

\* a shape that was produced, with its items in the order of next_back()
Backwards(shape) ==
  IF shape.res # Ok
    THEN shape
    ELSE [res |-> Ok,
          val |-> [k \in 1..Len(shape.val) |->
                     shape.val[Len(shape.val) - k + 1]]]

\* slice::Iter / IterMut of the row: next_back() walks the slice down
row_iter_rev(self, row_index) == Backwards(row_iter(self, row_index))

row_iter_mut_rev(self, row_index) == Backwards(row_iter_mut(self, row_index))

\* Map<Range>::next_back: the rows are indexed from column_len() - 1 down
column_iter_rev(self, column_index) ==
  IF column_index >= self.num_columns
    THEN [res |-> IndicesOutOfBounds(0, column_index), val |-> <<>>]
    ELSE IndexAll(self, [k \in 1..column_len(self) |->
                           <<column_len(self) - k, column_index>>])

\* StepBy::next_back on an iterator of n items left, every (step + 1)-th of
\* which is yielded: nth_back(next_back_index()), as positions from the front
RECURSIVE step_by_back(_, _)
step_by_back(n, step) ==
  LET rem == n % (step + 1)
      skipped == IF rem = 0 THEN step ELSE rem - 1
  IN  IF n = 0 \/ skipped >= n
        THEN <<>>
        ELSE <<n - 1 - skipped>> \o step_by_back(n - 1 - skipped, step)

column_iter_mut_rev(self, column_index) ==
  IF column_index >= self.num_columns
    THEN [res |-> IndicesOutOfBounds(0, column_index), val |-> <<>>]
  ELSE IF self.num_columns = 0
    THEN [res |-> Panic, val |-> <<>>]
  ELSE LET left == Len(self.vecgrid) - column_index
           back == step_by_back(IF left < 0 THEN 0 ELSE left,
                                self.num_columns - 1)
       IN  [res |-> Ok,
            val |-> [k \in 1..Len(back) |-> column_index + back[k]]]

\* Map<Range>::next_back: row_iter(num_rows - 1) first
rows_iter_rev(self) ==
  IF \E r \in 0..(self.num_rows - 1) : row_iter(self, r).res # Ok
    THEN [res |-> Panic, val |-> <<>>]
    ELSE [res |-> Ok,
          val |-> [k \in 1..self.num_rows |->
                     row_iter(self, self.num_rows - k).val]]

columns_iter_rev(self) ==
  IF \E c \in 0..(self.num_columns - 1) : column_iter(self, c).res # Ok
    THEN [res |-> Panic, val |-> <<>>]
    ELSE [res |-> Ok,
          val |-> [k \in 1..self.num_columns |->
                     column_iter(self, self.num_columns - k).val]]

\* ChunksMut::next over a slice of len items from offset start
RECURSIVE chunks_mut_next(_, _, _)
chunks_mut_next(start, len, chunk_size) ==
  LET sz == IF len < chunk_size THEN len ELSE chunk_size
  IN  IF len = 0
        THEN <<>>
        ELSE <<range(start, start + sz)>>
               \o chunks_mut_next(start + sz, len - sz, chunk_size)

\* ChunksMut::next_back: the remainder, if there is one, is the last chunk
RECURSIVE chunks_mut_next_back(_, _)
chunks_mut_next_back(len, chunk_size) ==
  LET remainder == len % chunk_size
      sz == IF remainder # 0 THEN remainder ELSE chunk_size
  IN  IF len = 0
        THEN <<>>
        ELSE <<range(len - sz, len)>>
               \o chunks_mut_next_back(len - sz, chunk_size)

\* rows_iter_mut(): vecgrid.chunks_mut(row_len), which panics on a chunk
\* size of zero
rows_iter_mut(self) ==
  IF row_len(self) = 0
    THEN [res |-> Panic, val |-> <<>>]
    ELSE [res |-> Ok,
          val |-> chunks_mut_next(0, Len(self.vecgrid), row_len(self))]

rows_iter_mut_rev(self) ==
  IF row_len(self) = 0
    THEN [res |-> Panic, val |-> <<>>]
    ELSE [res |-> Ok,
          val |-> chunks_mut_next_back(Len(self.vecgrid), row_len(self))]

\* columns_iter_mut with the stride of the other major order
columns_iter_mut_stride(self) ==
  [res |-> Ok,
   val |-> [ci \in 1..self.num_columns |->
              [i \in 1..self.num_rows |->
                 (i - 1) * self.num_rows + (ci - 1)]]]

\* columns_iter_mut(): the offsets (i * num_columns) + ci that are turned
\* into references through the raw pointer
columns_iter_mut(self) ==
  [res |-> Ok,
   val |-> [ci \in 1..self.num_columns |->
              [i \in 1..self.num_rows |->
                 (i - 1) * self.num_columns + (ci - 1)]]]

columns_iter_mut_rev(self) == Backwards(columns_iter_mut(self))

\* elements_column_major_iter_mut(): columns_iter_mut().flatten()
elements_column_major_iter_mut(self) ==
  [res |-> Ok, val |-> Flatten(columns_iter_mut(self).val)]

\* Flatten::next_back: the last column first, and within it the last row
elements_column_major_iter_mut_rev(self) ==
  LET columns == columns_iter_mut_rev(self).val
  IN  [res |-> Ok,
       val |-> Flatten([k \in 1..Len(columns) |->
                          Backwards([res |-> Ok, val |-> columns[k]]).val])]

(* --------------- shapes consumed from both ends at once ----------------- *)
(* ends is the list of calls the consumer makes: TRUE for next(), FALSE    *)
(* for next_back().                                                        *)

\* Range<usize> under a list of next() / next_back() calls
RECURSIVE range_ends(_, _, _)
range_ends(lo, hi, ends) ==
  IF ends = <<>> \/ lo >= hi
    THEN <<>>
  ELSE IF Head(ends)
    THEN <<lo>> \o range_ends(lo + 1, hi, Tail(ends))
  ELSE <<hi - 1>> \o range_ends(lo, hi - 1, Tail(ends))

\* columns_iter_mut() with the columns taken by outer and the rows of each
\* column by inner
columns_iter_mut_ends(self, outer, inner) ==
  LET columns == range_ends(0, self.num_columns, outer)
      rows == range_ends(0, self.num_rows, inner)
  IN  [res |-> Ok,
       val |-> [k \in 1..Len(columns) |->
                  [j \in 1..Len(rows) |->
                     (rows[j] * self.num_columns) + columns[k]]]]

NoColumn == [set |-> FALSE, ci |-> 0, lo |-> 0, hi |-> 0]

\* Flatten over columns_iter_mut(): lo..hi are the columns not yet started,
\* front and back the columns under way at either end (frontiter, backiter)
RECURSIVE flatten_ends(_, _, _, _, _, _)
flatten_ends(self, lo, hi, front, back, ends) ==
  LET offset(i, ci) == (i * self.num_columns) + ci
      started(ci) == [set |-> TRUE, ci |-> ci, lo |-> 0, hi |-> self.num_rows]
  IN  IF ends = <<>>
        THEN <<>>
      ELSE IF Head(ends)
        THEN IF front.set /\ front.lo < front.hi
               THEN <<offset(front.lo, front.ci)>>
                      \o flatten_ends(self, lo, hi,
                                      [front EXCEPT !.lo = @ + 1], back,
                                      Tail(ends))
             ELSE IF lo < hi
               THEN flatten_ends(self, lo + 1, hi, started(lo), back, ends)
             ELSE IF back.set /\ back.lo < back.hi
               THEN <<offset(back.lo, back.ci)>>
                      \o flatten_ends(self, lo, hi, NoColumn,
                                      [back EXCEPT !.lo = @ + 1], Tail(ends))
             ELSE <<>>
      ELSE IF back.set /\ back.lo < back.hi
        THEN <<offset(back.hi - 1, back.ci)>>
               \o flatten_ends(self, lo, hi, front,
                               [back EXCEPT !.hi = @ - 1], Tail(ends))
      ELSE IF lo < hi
        THEN flatten_ends(self, lo, hi - 1, front, started(hi - 1), ends)
      ELSE IF front.set /\ front.lo < front.hi
        THEN <<offset(front.hi - 1, front.ci)>>
               \o flatten_ends(self, lo, hi, [front EXCEPT !.hi = @ - 1],
                               NoColumn, Tail(ends))
      ELSE <<>>

\* elements_column_major_iter_mut() under a list of calls
elements_column_major_iter_mut_ends(self, ends) ==
  [res |-> Ok,
   val |-> flatten_ends(self, 0, self.num_columns, NoColumn, NoColumn, ends)]

(* ----------------------------- insert_column ---------------------------- *)
(* The method is called by the tests (test_insert_column) and is not in    *)
(* lib.rs; it is modelled on the specification: the buffer is flattened    *)
(* column-major, the new column is spliced in at at * num_rows, and the    *)
(* result is flattened back to row-major.  The guards mirror insert_row:   *)
(* DimensionMismatch for a column that is not num_rows long, then          *)
(* IndexOutOfBounds(at) unless at < num_columns.                           *)
insert_column(self, column, at) ==
  IF Len(column) # self.num_rows
    THEN [self |-> self, res |-> DimensionMismatch]
  ELSE IF ~(at < self.num_columns)
    THEN [self |-> self, res |-> IndexOutOfBounds(at)]
  ELSE LET column_major == as_column_major(self)
           s == splice(column_major.val, at * column_len(self), column)
           out == from_column_major(s.vec, self.num_rows, self.num_columns + 1)
       IN  IF column_major.res # Ok \/ s.panic \/ out.res # Ok
             THEN [self |-> self, res |-> Panic]
             ELSE [self |-> out.self, res |-> Ok]

\* the mutable iteration shapes, by name, consumed from the front
MutableShapes == {"elements_row_major_iter_mut",
                  "elements_column_major_iter_mut", "row_iter_mut",
                  "column_iter_mut", "rows_iter_mut", "columns_iter_mut"}

mutable_shape(self, shape, index) ==
  CASE shape = "elements_row_major_iter_mut" ->
         elements_row_major_iter_mut(self)
    [] shape = "elements_column_major_iter_mut" ->
         elements_column_major_iter_mut(self)
    [] shape = "row_iter_mut" -> row_iter_mut(self, index)
    [] shape = "column_iter_mut" -> column_iter_mut(self, index)
    [] shape = "rows_iter_mut" ->
         LET out == rows_iter_mut(self)
         IN  [res |-> out.res, val |-> Flatten(out.val)]
    [] shape = "columns_iter_mut" ->
         LET out == columns_iter_mut(self)
         IN  [res |-> out.res, val |-> Flatten(out.val)]

(* --------------------------- the state machine -------------------------- *)

NoCall == [op |-> "none", args |-> <<>>, res |-> Ok, val |-> <<>>]

NoEarlier == [set |-> FALSE, call |-> NoCall, before |-> Vecgrid(<<>>, 0, 0)]

\* the call that returned just before the last one, and the grid before it
Chained == [set |-> TRUE, call |-> last, before |-> prev]

Init ==
  /\ vecgrid = <<>>
  /\ num_rows = 0
  /\ num_columns = 0
  /\ pc = "new"
  /\ last = NoCall
  /\ prev = Vecgrid(<<>>, 0, 0)
  /\ earlier = NoEarlier

\* a constructor returns the grid, or the error and no grid
Constructed(op, args, out) ==
  /\ out.self.num_rows <= MaxRows
  /\ out.self.num_columns <= MaxColumns
  /\ vecgrid' = IF out.res = Ok THEN out.self.vecgrid ELSE vecgrid
  /\ num_rows' = IF out.res = Ok THEN out.self.num_rows ELSE num_rows
  /\ num_columns' = IF out.res = Ok THEN out.self.num_columns ELSE num_columns
  /\ pc' = IF out.res = Ok THEN "returned"
           ELSE IF out.res = Panic THEN "aborted" ELSE "failed"
  /\ last' = [op |-> op, args |-> args, res |-> out.res, val |-> <<>>]
  /\ prev' = Self
  /\ earlier' = NoEarlier

\* a method of the grid returns (or panics) and leaves the grid as out.self
Returned(op, args, out) ==
  /\ out.self.num_rows <= MaxRows
  /\ vecgrid' = out.self.vecgrid
  /\ num_rows' = out.self.num_rows
  /\ num_columns' = out.self.num_columns
  /\ pc' = IF out.res = Panic THEN "aborted" ELSE "returned"
  /\ last' = [op |-> op, args |-> args, res |-> out.res, val |-> <<>>]
  /\ prev' = Self

FromRows ==
  /\ pc = "new"
  /\ \E rows \in SeqsUpTo(InputRows, MaxRows) :
       Constructed("from_rows", [rows |-> rows], from_rows(rows))

FromColumns ==
  /\ pc = "new"
  /\ \E columns \in SeqsUpTo(SeqsUpTo(Elem, MaxRows), MaxColumns) :
       Constructed("from_columns", [columns |-> columns], from_columns(columns))

FromRowMajor ==
  /\ pc = "new"
  /\ \E elements \in SeqsUpTo(Elem, MaxRows * MaxColumns),
        nr \in 0..MaxRows, nc \in 0..MaxColumns :
       Constructed("from_row_major",
                   [elements |-> elements, num_rows |-> nr, num_columns |-> nc],
                   from_row_major(elements, nr, nc))

FromColumnMajor ==
  /\ pc = "new"
  /\ \E elements \in SeqsUpTo(Elem, MaxRows * MaxColumns),
        nr \in 0..MaxRows, nc \in 0..MaxColumns :
       Constructed("from_column_major",
                   [elements |-> elements, num_rows |-> nr, num_columns |-> nc],
                   from_column_major(elements, nr, nc))

FilledWith ==
  /\ pc = "new"
  /\ \E element \in Elem, nr \in 0..MaxRows, nc \in 0..MaxColumns :
       Constructed("filled_with",
                   [element |-> element, num_rows |-> nr, num_columns |-> nc],
                   filled_with(element, nr, nc))

FilledByRowMajor ==
  /\ pc = "new"
  /\ \E generator \in [1..(MaxRows * MaxColumns) -> Elem],
        nr \in 0..MaxRows, nc \in 0..MaxColumns :
       LET out == filled_by_row_major(generator, nr, nc)
       IN  Constructed("filled_by_row_major",
                       [generator |-> generator, num_rows |-> nr,
                        num_columns |-> nc, calls |-> out.calls], out)

FilledByColumnMajor ==
  /\ pc = "new"
  /\ \E generator \in [1..(MaxRows * MaxColumns) -> Elem],
        nr \in 0..MaxRows, nc \in 0..MaxColumns :
       LET out == filled_by_column_major(generator, nr, nc)
       IN  Constructed("filled_by_column_major",
                       [generator |-> generator, num_rows |-> nr,
                        num_columns |-> nc, calls |-> out.calls], out)

FromIterRowMajor ==
  /\ pc = "new"
  /\ \E iterator \in SeqsUpTo(Elem, MaxRows * MaxColumns + 1),
        nr \in 0..MaxRows, nc \in 0..MaxColumns :
       LET out == from_iter_row_major(iterator, nr, nc)
       IN  Constructed("from_iter_row_major",
                       [iterator |-> iterator, num_rows |-> nr,
                        num_columns |-> nc, pulled |-> out.pulled], out)

FromIterColumnMajor ==
  /\ pc = "new"
  /\ \E iterator \in SeqsUpTo(Elem, MaxRows * MaxColumns + 1),
        nr \in 0..MaxRows, nc \in 0..MaxColumns :
       LET out == from_iter_column_major(iterator, nr, nc)
       IN  Constructed("from_iter_column_major",
                       [iterator |-> iterator, num_rows |-> nr,
                        num_columns |-> nc, pulled |-> out.pulled], out)

\* the caller is done with the outcome of the last call
Forget ==
  /\ pc = "returned"
  /\ num_columns <= MaxColumns
  /\ pc' = "idle"
  /\ last' = NoCall
  /\ prev' = Self
  /\ earlier' = NoEarlier
  /\ UNCHANGED <<vecgrid, num_rows, num_columns>>

Set ==
  /\ pc = "idle"
  /\ \E row \in 0..MaxRows, column \in ColumnIndex, element \in Elem :
       Returned("set", [row |-> row, column |-> column, element |-> element],
                set(Self, row, column, element))
  /\ earlier' = NoEarlier

SetRowMajor ==
  /\ pc = "idle"
  /\ \E index \in LinearIndex, element \in Elem :
       Returned("set_row_major", [index |-> index, element |-> element],
                set_row_major(Self, index, element))
  /\ earlier' = NoEarlier

SetColumnMajor ==
  /\ pc = "idle"
  /\ \E index \in LinearIndex, element \in Elem :
       Returned("set_column_major", [index |-> index, element |-> element],
                set_column_major(Self, index, element))
  /\ earlier' = NoEarlier

InsertRow ==
  /\ pc = "idle"
  /\ \E row \in InputRows, at \in RowIndex :
       Returned("insert_row", [row |-> row, at |-> at],
                insert_row(Self, row, at))
  /\ earlier' = NoEarlier

InsertRows ==
  /\ pc = "idle"
  /\ \E rows \in SeqsUpTo(InputRows, MaxNewRows), at \in RowIndex :
       Returned("insert_rows", [rows |-> rows, at |-> at],
                insert_rows(Self, rows, at))
  /\ earlier' = NoEarlier

AppendRows ==
  /\ pc = "idle"
  /\ \E rows \in SeqsUpTo(InputRows, MaxNewRows) :
       Returned("append_rows", [rows |-> rows], append_rows(Self, rows))
  /\ earlier' = NoEarlier

\* remove_row is called on an idle grid, or right after a successful
\* insert_row
RemoveRow ==
  /\ \/ pc = "idle"
     \/ pc = "returned" /\ last.op = "insert_row" /\ last.res = Ok
  /\ \E at \in RowIndex :
       Returned("remove_row", [at |-> at], remove_row(Self, at))
  /\ earlier' = IF pc = "returned" THEN Chained ELSE NoEarlier

RemoveRows ==
  /\ pc = "idle"
  /\ \E at \in RowIndex, n \in RowIndex :
       Returned("remove_rows", [at |-> at, n |-> n], remove_rows(Self, at, n))
  /\ earlier' = NoEarlier

\* a read-only method returns its value (or panics); the grid stays
Queried(op, args, res, val) ==
  /\ pc' = IF res = Panic THEN "aborted" ELSE "returned"
  /\ last' = [op |-> op, args |-> args, res |-> res, val |-> val]
  /\ prev' = Self
  /\ UNCHANGED <<vecgrid, num_rows, num_columns>>

Get ==
  /\ pc = "idle"
  /\ \E row \in 0..MaxRows, column \in ColumnIndex :
       Queried("get", [row |-> row, column |-> column],
               get(Self, row, column), <<>>)
  /\ earlier' = NoEarlier

GetRowMajor ==
  /\ pc = "idle"
  /\ \E index \in LinearIndex :
       Queried("get_row_major", [index |-> index],
               get_row_major(Self, index), <<>>)
  /\ earlier' = NoEarlier

GetColumnMajor ==
  /\ pc = "idle"
  /\ \E index \in LinearIndex :
       Queried("get_column_major", [index |-> index],
               get_column_major(Self, index), <<>>)
  /\ earlier' = NoEarlier

GetMutColumnMajor ==
  /\ pc = "idle"
  /\ \E index \in LinearIndex :
       Queried("get_mut_column_major", [index |-> index],
               get_mut_column_major(Self, index), <<>>)
  /\ earlier' = NoEarlier

Index ==
  /\ pc = "idle"
  /\ \E row \in 0..MaxRows, column \in ColumnIndex :
       LET out == op_index(Self, row, column)
       IN  Queried("index", [row |-> row, column |-> column], out.res, out.val)
  /\ earlier' = NoEarlier

IndexMut ==
  /\ pc = "idle"
  /\ \E row \in 0..MaxRows, column \in ColumnIndex :
       LET out == op_index_mut(Self, row, column)
       IN  Queried("index_mut", [row |-> row, column |-> column],
                   out.res, out.val)
  /\ earlier' = NoEarlier

\* as_rows is called on an idle grid, or right on the return of from_rows
AsRows ==
  /\ \/ pc = "idle"
     \/ pc = "returned" /\ last.op = "from_rows"
  /\ LET out == as_rows(Self)
     IN  Queried("as_rows", <<>>, out.res, out.val)
  /\ earlier' = IF pc = "returned" THEN Chained ELSE NoEarlier

\* as_column_major is called on an idle grid, or right on the return of a
\* column-major constructor
AsColumnMajor ==
  /\ \/ pc = "idle"
     \/ /\ pc = "returned"
        /\ last.op \in {"from_column_major", "from_iter_column_major"}
  /\ LET out == as_column_major(Self)
     IN  Queried("as_column_major", <<>>, out.res, out.val)
  /\ earlier' = IF pc = "returned" THEN Chained ELSE NoEarlier

\* as_columns is called on an idle grid, or right on the return of
\* from_columns or insert_column
AsColumns ==
  /\ \/ pc = "idle"
     \/ pc = "returned" /\ last.op \in {"from_columns", "insert_column"}
  /\ LET out == as_columns(Self)
     IN  Queried("as_columns", <<>>, out.res, out.val)
  /\ earlier' = IF pc = "returned" THEN Chained ELSE NoEarlier


RowIter ==
  /\ pc = "idle"
  /\ \E row_index \in 0..MaxRows, rev \in BOOLEAN :
       LET out == IF rev THEN row_iter_rev(Self, row_index)
                         ELSE row_iter(Self, row_index)
       IN  Queried("row_iter", [index |-> row_index, rev |-> rev], out.res, out.val)
  /\ earlier' = NoEarlier

RowIterMut ==
  /\ pc = "idle"
  /\ \E row_index \in 0..MaxRows, rev \in BOOLEAN :
       LET out == IF rev THEN row_iter_mut_rev(Self, row_index)
                         ELSE row_iter_mut(Self, row_index)
       IN  Queried("row_iter_mut", [index |-> row_index, rev |-> rev], out.res, out.val)
  /\ earlier' = NoEarlier

ColumnIter ==
  /\ pc = "idle"
  /\ \E column_index \in ColumnIndex, rev \in BOOLEAN :
       LET out == IF rev THEN column_iter_rev(Self, column_index)
                         ELSE column_iter(Self, column_index)
       IN  Queried("column_iter", [index |-> column_index, rev |-> rev], out.res, out.val)
  /\ earlier' = NoEarlier

ColumnIterMut ==
  /\ pc = "idle"
  /\ \E column_index \in ColumnIndex, rev \in BOOLEAN :
       LET out == IF rev THEN column_iter_mut_rev(Self, column_index)
                         ELSE column_iter_mut(Self, column_index)
       IN  Queried("column_iter_mut", [index |-> column_index, rev |-> rev],
                   out.res, out.val)
  /\ earlier' = NoEarlier


\* a call of an iteration shape, consumed to its end from the front or
\* from the back
Iterated(op, forward, backward) ==
  \E rev \in BOOLEAN :
    LET out == IF rev THEN backward ELSE forward
    IN  Queried(op, [rev |-> rev], out.res, out.val)

\* a shape that hands out references through a raw pointer: a reference
\* past the end of the buffer is undefined behaviour
IteratedUnchecked(op, forward, backward) ==
  \E rev \in BOOLEAN, outcome \in {Ok, Panic} :
    LET out == IF rev THEN backward ELSE forward
        offsets == Flatten(out.val)
        inside == \A k \in 1..Len(offsets) : offsets[k] < Len(vecgrid)
    IN  /\ inside => outcome = Ok
        /\ Queried(op, [rev |-> rev], outcome,
                   IF inside THEN out.val ELSE <<>>)

ElementsRowMajorIter ==
  /\ pc = "idle"
  /\ Iterated("elements_row_major_iter", elements_row_major_iter(Self), elements_row_major_iter_rev(Self))
  /\ earlier' = NoEarlier

ElementsRowMajorIterMut ==
  /\ pc = "idle"
  /\ Iterated("elements_row_major_iter_mut", elements_row_major_iter_mut(Self), elements_row_major_iter_mut_rev(Self))
  /\ earlier' = NoEarlier

ElementsColumnMajorIter ==
  /\ pc = "idle"
  /\ Iterated("elements_column_major_iter", elements_column_major_iter(Self), elements_column_major_iter_rev(Self))
  /\ earlier' = NoEarlier

RowsIter ==
  /\ pc = "idle"
  /\ Iterated("rows_iter", rows_iter(Self), rows_iter_rev(Self))
  /\ earlier' = NoEarlier

RowsIterMut ==
  /\ pc = "idle"
  /\ Iterated("rows_iter_mut", rows_iter_mut(Self), rows_iter_mut_rev(Self))
  /\ earlier' = NoEarlier

ColumnsIter ==
  /\ pc = "idle"
  /\ Iterated("columns_iter", columns_iter(Self), columns_iter_rev(Self))
  /\ earlier' = NoEarlier

EnumerateRowMajor ==
  /\ pc = "idle"
  /\ Iterated("enumerate_row_major", enumerate_row_major(Self), enumerate_row_major_rev(Self))
  /\ earlier' = NoEarlier

EnumerateColumnMajor ==
  /\ pc = "idle"
  /\ Iterated("enumerate_column_major", enumerate_column_major(Self), enumerate_column_major_rev(Self))
  /\ earlier' = NoEarlier

ColumnsIterMut ==
  /\ pc = "idle"
  /\ IteratedUnchecked("columns_iter_mut", columns_iter_mut(Self),
                       columns_iter_mut_rev(Self))
  /\ earlier' = NoEarlier

ElementsColumnMajorIterMut ==
  /\ pc = "idle"
  /\ \E rev \in BOOLEAN, outcome \in {Ok, Panic} :
       LET out == IF rev THEN elements_column_major_iter_mut_rev(Self)
                         ELSE elements_column_major_iter_mut(Self)
           inside == \A k \in 1..Len(out.val) : out.val[k] < Len(vecgrid)
       IN  /\ inside => outcome = Ok
           /\ Queried("elements_column_major_iter_mut", [rev |-> rev],
                      outcome, IF inside THEN out.val ELSE <<>>)
  /\ earlier' = NoEarlier

IndicesRowMajor ==
  /\ pc = "idle"
  /\ Iterated("indices_row_major",
              [res |-> Ok, val |-> indices_row_major(num_rows, num_columns)],
              [res |-> Ok,
               val |-> indices_row_major_rev(num_rows, num_columns)])
  /\ earlier' = NoEarlier

IndicesColumnMajor ==
  /\ pc = "idle"
  /\ Iterated("indices_column_major",
              [res |-> Ok, val |-> indices_column_major(num_rows, num_columns)],
              [res |-> Ok,
               val |-> indices_column_major_rev(num_rows, num_columns)])
  /\ earlier' = NoEarlier


\* columns_iter_mut() consumed to its end from both ends
ColumnsIterMutEnds ==
  /\ pc = "idle"
  /\ \E outer \in [1..num_columns -> BOOLEAN],
        inner \in [1..num_rows -> BOOLEAN], outcome \in {Ok, Panic} :
       LET out == columns_iter_mut_ends(Self, outer, inner)
           offsets == Flatten(out.val)
           inside == \A k \in 1..Len(offsets) : offsets[k] < Len(vecgrid)
       IN  /\ inside => outcome = Ok
           /\ Queried("columns_iter_mut_ends",
                      [outer |-> outer, inner |-> inner], outcome,
                      IF inside THEN out.val ELSE <<>>)
  /\ earlier' = NoEarlier

\* elements_column_major_iter_mut() consumed to its end from both ends
ElementsColumnMajorIterMutEnds ==
  /\ pc = "idle"
  /\ \E ends \in [1..(num_rows * num_columns) -> BOOLEAN],
        outcome \in {Ok, Panic} :
       LET out == elements_column_major_iter_mut_ends(Self, ends)
           inside == \A k \in 1..Len(out.val) : out.val[k] < Len(vecgrid)
       IN  /\ inside => outcome = Ok
           /\ Queried("elements_column_major_iter_mut_ends", [ends |-> ends],
                      outcome, IF inside THEN out.val ELSE <<>>)
  /\ earlier' = NoEarlier


\* the grid may grow one column beyond MaxColumns, and is then only read
InsertColumn ==
  /\ pc = "idle"
  /\ \E column \in SeqsUpTo(Elem, MaxRows), at \in 0..(MaxColumns + 1) :
       LET out == insert_column(Self, column, at)
       IN  /\ out.self.num_columns <= MaxColumns + 1
           /\ Returned("insert_column", [column |-> column, at |-> at], out)
  /\ earlier' = NoEarlier

\* *reference = element, through the k-th reference a mutable shape yields;
\* a reference past the end of the buffer is undefined behaviour
WriteThrough ==
  /\ pc = "idle"
  /\ \E shape \in MutableShapes, index \in RowIndex \cup ColumnIndex,
        k \in 1..(MaxRows * MaxColumns), element \in Elem,
        outcome \in {Ok, Panic} :
       LET out == mutable_shape(Self, shape, index)
           inside == out.val[k] < Len(vecgrid)
       IN  /\ index = 0 \/ shape \in {"row_iter_mut", "column_iter_mut"}
           /\ out.res = Ok
           /\ k <= Len(out.val)
           /\ inside => outcome = Ok
           /\ Returned("write_through",
                       [shape |-> shape, index |-> index, k |-> k,
                        element |-> element],
                       [self |-> IF inside
                                   THEN Vecgrid([vecgrid EXCEPT
                                                   ![out.val[k] + 1] = element],
                                                num_rows, num_columns)
                                   ELSE Self,
                        res |-> outcome])
  /\ earlier' = NoEarlier

Next ==
  \/ FromRows
  \/ FromColumns
  \/ FromRowMajor
  \/ FromColumnMajor
  \/ FilledWith
  \/ FilledByRowMajor
  \/ FilledByColumnMajor
  \/ FromIterRowMajor
  \/ FromIterColumnMajor
  \/ Forget
  \/ Set
  \/ SetRowMajor
  \/ SetColumnMajor
  \/ InsertRow
  \/ InsertRows
  \/ AppendRows
  \/ RemoveRow
  \/ RemoveRows
  \/ Get
  \/ GetRowMajor
  \/ GetColumnMajor
  \/ GetMutColumnMajor
  \/ Index
  \/ IndexMut
  \/ AsRows
  \/ AsColumnMajor
  \/ AsColumns
  \/ RowIter
  \/ RowIterMut
  \/ ColumnIter
  \/ ColumnIterMut
  \/ ElementsRowMajorIter
  \/ ElementsRowMajorIterMut
  \/ ElementsColumnMajorIter
  \/ RowsIter
  \/ RowsIterMut
  \/ ColumnsIter
  \/ EnumerateRowMajor
  \/ EnumerateColumnMajor
  \/ ColumnsIterMut
  \/ ElementsColumnMajorIterMut
  \/ IndicesRowMajor
  \/ IndicesColumnMajor
  \/ ColumnsIterMutEnds
  \/ ElementsColumnMajorIterMutEnds
  \/ InsertColumn
  \/ WriteThrough

Spec == Init /\ [][Next]_vars

(* ------------- from_iter_*: the collection, one pull at a time ---------- *)
(* iterator.take(total_len).collect() as the loop it runs: the producer    *)
(* is a finite list of items or an endless repetition of a cycle.  While   *)
(* the call runs vecgrid is the Vec under collection, num_rows and         *)
(* num_columns are the two arguments and last.args.pulled counts the items *)
(* taken out of the producer.                                              *)

\* the longest finite producer and the longest cycle of an endless one
MaxFinite == 3

MaxCycle == 2

\* no run is followed beyond this many pulls
MaxPulls == MaxRows * MaxColumns + 2

Producers ==
  {[items |-> items, endless |-> FALSE] : items \in SeqsUpTo(Elem, MaxFinite)}
    \cup
  {[items |-> items, endless |-> TRUE] :
     items \in SeqsUpTo(Elem, MaxCycle) \ {<<>>}}

\* Iterator::next of the producer after k items have been pulled
producer_next(producer, k) ==
  IF producer.endless
    THEN Some(producer.items[(k % Len(producer.items)) + 1])
  ELSE IF k < Len(producer.items)
    THEN Some(producer.items[k + 1])
  ELSE None

\* Take::next that never counts down
take_next_uncounted(n, producer, k) == producer_next(producer, k)

\* Take::next with n items still to take: None once n is used up
take_next(n, producer, k) ==
  IF n # 0 THEN producer_next(producer, k) ELSE None

\* what follows the collection of the Vec taken
from_iter_collected(op, taken, nr, nc) ==
  IF op = "from_iter_row_major"
    THEN IF Len(taken) # nr * nc
           THEN [self |-> Vecgrid(<<>>, 0, 0), res |-> NotEnoughElements]
           ELSE [self |-> Vecgrid(taken, nr, nc), res |-> Ok]
    ELSE LET out == from_column_major(taken, nr, nc)
         IN  [self |-> out.self,
              res |-> IF out.res = Ok THEN Ok ELSE NotEnoughElements]

InitIter ==
  /\ vecgrid = <<>>
  /\ num_rows \in 0..MaxRows
  /\ num_columns \in 0..MaxColumns
  /\ pc = "collecting"
  /\ last \in {[op |-> op, args |-> [iterator |-> producer, pulled |-> 0],
                res |-> Ok, val |-> <<>>] :
                 op \in {"from_iter_row_major", "from_iter_column_major"},
                 producer \in Producers}
  /\ prev = Vecgrid(<<>>, 0, 0)
  /\ earlier = NoEarlier

\* collect() pulls one more item through take()
TakeNext ==
  /\ pc = "collecting"
  /\ last.args.pulled < MaxPulls
  /\ LET item == take_next(num_rows * num_columns - Len(vecgrid),
                           last.args.iterator, last.args.pulled)
     IN  /\ item # None
         /\ vecgrid' = Append(vecgrid, item[2])
  /\ last' = [last EXCEPT !.args.pulled = @ + 1]
  /\ UNCHANGED <<num_rows, num_columns, pc, prev, earlier>>

\* take() has ended: the length check and the result
Collected ==
  /\ pc = "collecting"
  /\ take_next(num_rows * num_columns - Len(vecgrid),
               last.args.iterator, last.args.pulled) = None
  /\ LET out == from_iter_collected(last.op, vecgrid, num_rows, num_columns)
     IN  /\ vecgrid' = IF out.res = Ok THEN out.self.vecgrid ELSE vecgrid
         /\ pc' = IF out.res = Ok THEN "returned" ELSE "failed"
         /\ last' = [last EXCEPT !.res = out.res]
  /\ UNCHANGED <<num_rows, num_columns, prev, earlier>>

NextIter ==
  \/ TakeNext
  \/ Collected

\* the constructor is a sequential loop: a started call keeps running
SpecIter == InitIter /\ [][NextIter]_vars /\ WF_vars(NextIter)

(* ------------------------------ properties ----------------------------- *)

MutatingOps == {"set", "set_row_major", "set_column_major", "insert_row",
                "insert_rows", "append_rows", "remove_row", "remove_rows"}

IsErr(res) == res # Ok /\ res # Panic

\* row r of a grid, read off the row-major buffer
RowOf(g, r) ==
  IF r >= 0 /\ g.num_columns >= 0 /\ (r + 1) * g.num_columns <= Len(g.vecgrid)
    THEN SubSeq(g.vecgrid, r * g.num_columns + 1, (r + 1) * g.num_columns)
    ELSE <<"no such row">>

Rectangular(rows) ==
  \A i \in 1..Len(rows), j \in 1..Len(rows) : Len(rows[i]) = Len(rows[j])

AllOfWidth(rows, width) == \A k \in 1..Len(rows) : Len(rows[k]) = width

\* C1: whenever a constructor has returned Ok or a call has returned to the
\* caller, the buffer holds exactly num_rows * num_columns elements, which
\* is what num_elements() reports.
C1_DimensionInvariant ==
  pc \in {"returned", "idle"} =>
    /\ Len(vecgrid) = num_rows * num_columns
    /\ num_elements(Self) = Len(vecgrid)

C1_Witness ==
  /\ pc = "returned"
  /\ last.op = "remove_rows" /\ last.res = Ok /\ last.args.n = 2
  /\ num_rows = 1 /\ num_columns = 2

\* C2: every cell (r, c) inside the grid is returned as Some of the same
\* element by get(r, c), get_row_major(r * num_columns + c) and
\* get_column_major(c * num_rows + r).
C2_CrossAddressing ==
  pc \in {"returned", "idle"} =>
    \A r \in 0..(num_rows - 1), c \in 0..(num_columns - 1) :
      LET e == get(Self, r, c)
      IN  /\ e[1] = "Some"
          /\ e = Some(vecgrid[r * num_columns + c + 1])
          /\ get_row_major(Self, r * num_columns + c) = e
          /\ get_column_major(Self, c * num_rows + r) = e

C2_Witness ==
  /\ last.op = "get_column_major" /\ last.res[1] = "Some"
  /\ num_rows = 3 /\ num_columns = 2
  /\ last.args.index % num_rows = 0 /\ last.args.index \div num_rows = 1
  /\ last.res = get(Self, 0, 1)
  /\ last.res # get_row_major(Self, last.args.index)

\* C3: from_rows of any rectangular list of rows returns Ok, and as_rows of
\* the grid it returns is that list of rows.
C3_RoundTripRows ==
  /\ (last.op = "from_rows" /\ Rectangular(last.args.rows)) => last.res = Ok
  /\ (last.op = "as_rows" /\ earlier.set /\ earlier.call.op = "from_rows") =>
       (last.res = Ok /\ last.val = earlier.call.args.rows)

\* C4: remove_row(k) right after a successful insert_row(row, k) returns Ok
\* and leaves the grid equal to the grid before the insertion.
C4_InsertRemoveInverse ==
  (/\ last.op = "remove_row" /\ earlier.set
   /\ earlier.call.op = "insert_row" /\ earlier.call.res = Ok
   /\ last.args.at = earlier.call.args.at) =>
    (last.res = Ok /\ Self = earlier.before)

C4_Witness ==
  /\ last.op = "remove_row" /\ earlier.set /\ last.res = Ok
  /\ earlier.call.op = "insert_row" /\ earlier.call.res = Ok
  /\ last.args.at = 1 /\ earlier.call.args.at = 1
  /\ num_rows = 2 /\ num_columns = 2
  /\ earlier.call.args.row # RowOf(Self, 1)
  /\ earlier.call.args.row # RowOf(Self, 0)

\* C5: a successful insert_row(row, at) splices row into the buffer at
\* offset at * num_columns: one more row, the same num_columns, row at is
\* the inserted row, the rows before at stay and each old row i >= at is
\* row i + 1.
C5_InsertRowSplices ==
  (last.op = "insert_row" /\ last.res = Ok) =>
    LET at == last.args.at
        row == last.args.row
        nc == prev.num_columns
    IN  /\ num_rows = prev.num_rows + 1
        /\ num_columns = nc
        /\ vecgrid = SubSeq(prev.vecgrid, 1, at * nc) \o row
                       \o SubSeq(prev.vecgrid, at * nc + 1, Len(prev.vecgrid))
        /\ RowOf(Self, at) = row
        /\ \A i \in 0..(at - 1) : RowOf(Self, i) = RowOf(prev, i)
        /\ \A i \in at..(prev.num_rows - 1) : RowOf(Self, i + 1) = RowOf(prev, i)

C5_Witness ==
  /\ last.op = "insert_row" /\ last.res = Ok /\ last.args.at = 1
  /\ num_rows = 3 /\ num_columns = 2
  /\ RowOf(Self, 0) # RowOf(Self, 1) /\ RowOf(Self, 1) # RowOf(Self, 2)
  /\ RowOf(Self, 0) # RowOf(Self, 2)

\* the rows of after are the rows of before with rows put in at row at
InsertedBlock(before, after, rows, at) ==
  /\ after.num_rows = before.num_rows + Len(rows)
  /\ after.num_columns = before.num_columns
  /\ \A i \in 0..(at - 1) : RowOf(after, i) = RowOf(before, i)
  /\ \A j \in 1..Len(rows) : RowOf(after, at + j - 1) = rows[j]
  /\ \A i \in at..(before.num_rows - 1) :
       RowOf(after, i + Len(rows)) = RowOf(before, i)

\* C6: insert_rows(rows, at) with rows all of length num_columns and
\* at <= num_rows returns Ok and puts the rows, in order, in one block at row
\* at, the old rows from at on moving down by rows.len(); append_rows(rows)
\* does what insert_rows(rows, num_rows) does.
C6_InsertRowsBlock ==
  /\ (/\ last.op = "insert_rows"
      /\ AllOfWidth(last.args.rows, prev.num_columns)
      /\ last.args.at <= prev.num_rows) =>
       (last.res = Ok /\ InsertedBlock(prev, Self, last.args.rows, last.args.at))
  /\ last.op = "append_rows" =>
       IF AllOfWidth(last.args.rows, prev.num_columns)
         THEN /\ last.res = Ok
              /\ InsertedBlock(prev, Self, last.args.rows, prev.num_rows)
         ELSE last.res = DimensionMismatch /\ Self = prev

C6_Witness ==
  /\ last.op = "insert_rows" /\ last.res = Ok /\ last.args.at = 1
  /\ Len(last.args.rows) = 2 /\ last.args.rows[1] # last.args.rows[2]
  /\ num_rows = 3 /\ num_columns = 2

C6_WitnessAppend ==
  /\ last.op = "append_rows" /\ last.res = Ok
  /\ Len(last.args.rows) = 2 /\ last.args.rows[1] # last.args.rows[2]
  /\ num_rows = 3 /\ num_columns = 2
  /\ RowOf(Self, 0) # RowOf(Self, 2)

\* the rows of after are the rows of before without the n rows from row at
RemovedBlock(before, after, at, n) ==
  LET nc == before.num_columns
  IN  /\ after.num_rows = before.num_rows - n
      /\ after.num_columns = nc
      /\ after.vecgrid = SubSeq(before.vecgrid, 1, at * nc)
                           \o SubSeq(before.vecgrid, (at + n) * nc + 1,
                                     Len(before.vecgrid))
      /\ \A i \in 0..(at - 1) : RowOf(after, i) = RowOf(before, i)
      /\ \A i \in (at + n)..(before.num_rows - 1) :
           RowOf(after, i - n) = RowOf(before, i)

\* C7: remove_rows(at, n) with at + n <= num_rows returns Ok and removes
\* exactly the rows at..at+n, keeping the others in order, num_rows going
\* down by n and num_columns staying; remove_row(at) is remove_rows(at, 1).
C7_RemoveRowsBlock ==
  /\ (last.op = "remove_rows" /\ last.args.at + last.args.n <= prev.num_rows)
       => (last.res = Ok /\ RemovedBlock(prev, Self, last.args.at, last.args.n))
  /\ (last.op = "remove_row" /\ last.args.at + 1 <= prev.num_rows)
       => (last.res = Ok /\ RemovedBlock(prev, Self, last.args.at, 1))

C7_Witness ==
  /\ last.op = "remove_rows" /\ last.res = Ok
  /\ last.args.at = 1 /\ last.args.n = 1
  /\ prev.num_rows = 3 /\ num_columns = 2
  /\ RowOf(prev, 0) # RowOf(prev, 1) /\ RowOf(prev, 1) # RowOf(prev, 2)
  /\ RowOf(prev, 0) # RowOf(prev, 2)

\* C8: remove_rows(at, n) and remove_row(at) (n = 1) whose range at..at+n is
\* not inside 0..num_rows return an Err value, without aborting, and leave
\* the grid unchanged.
C8_RemoveOutOfRangeIsErr ==
  /\ (last.op = "remove_rows" /\ last.args.at + last.args.n > prev.num_rows)
       => (IsErr(last.res) /\ pc # "aborted" /\ Self = prev)
  /\ (last.op = "remove_row" /\ last.args.at + 1 > prev.num_rows)
       => (IsErr(last.res) /\ pc # "aborted" /\ Self = prev)

\* C9: insert_row returns DimensionMismatch for a row of the wrong length,
\* otherwise IndexOutOfBounds(at) unless at < num_rows, and Ok only for a
\* row of length num_columns at at < num_rows; insert_rows returns
\* DimensionMismatch when some row has the wrong length, otherwise
\* IndexOutOfBounds(at) when at > num_rows, and Ok only when all rows have
\* length num_columns and at <= num_rows; a rejected call has not mutated.
C9_InsertValidation ==
  /\ last.op = "insert_row" =>
       LET fits == Len(last.args.row) = prev.num_columns
           at == last.args.at
       IN  /\ ~fits => last.res = DimensionMismatch
           /\ (fits /\ ~(at < prev.num_rows)) => last.res = IndexOutOfBounds(at)
           /\ last.res = Ok => (fits /\ at < prev.num_rows)
           /\ last.res # Ok => Self = prev
  /\ last.op = "insert_rows" =>
       LET fits == AllOfWidth(last.args.rows, prev.num_columns)
           at == last.args.at
       IN  /\ ~fits => last.res = DimensionMismatch
           /\ (fits /\ at > prev.num_rows) => last.res = IndexOutOfBounds(at)
           /\ last.res = Ok => (fits /\ at <= prev.num_rows)
           /\ last.res # Ok => Self = prev

C9_Witness ==
  /\ last.op = "insert_row" /\ last.res = IndexOutOfBounds(2)
  /\ prev.num_rows = 2 /\ prev.num_columns = 2

C9_WitnessMismatch ==
  /\ last.op = "insert_rows" /\ last.res = DimensionMismatch
  /\ last.args.at > prev.num_rows
  /\ Len(last.args.rows) = 2 /\ Len(last.args.rows[1]) = prev.num_columns

\* C10: a mutation that returns Err leaves the buffer, num_rows and
\* num_columns as they were before the call.
C10_ErrLeavesGrid ==
  (last.op \in MutatingOps /\ IsErr(last.res)) =>
    (Self = prev /\ pc = "returned")

C10_Witness ==
  /\ last.op = "insert_rows" /\ last.res = DimensionMismatch
  /\ Len(last.args.rows) = 2 /\ Len(last.args.rows[1]) = prev.num_columns
  /\ last.args.at = 1 /\ prev.num_rows = 2 /\ prev.num_columns = 2

\* the row-major offset of the cell a column-major index j addresses
ColumnMajorOffset(g, j) ==
  (j % g.num_rows) * g.num_columns + (j \div g.num_rows)

\* C11: get_column_major(j), get_mut_column_major(j) and
\* set_column_major(j, e) return on every grid, also one with no rows or no
\* columns: Some / Ok for cell (j % num_rows, j / num_rows) exactly when
\* j < num_rows * num_columns, and None / Err(IndexOutOfBounds(j)) otherwise.
C11_ColumnMajorTotal ==
  (last.op \in {"get_column_major", "get_mut_column_major",
                "set_column_major"}) =>
    LET j == last.args.index
        inside == j < prev.num_rows * prev.num_columns
    IN  /\ last.res # Panic
        /\ pc = "returned"
        /\ last.op = "get_column_major" =>
             IF inside
               THEN last.res = Some(prev.vecgrid[ColumnMajorOffset(prev, j) + 1])
               ELSE last.res = None
        /\ last.op = "get_mut_column_major" =>
             IF inside
               THEN last.res = Some(ColumnMajorOffset(prev, j))
               ELSE last.res = None
        /\ last.op = "set_column_major" =>
             IF inside
               THEN /\ last.res = Ok
                    /\ vecgrid[ColumnMajorOffset(prev, j) + 1]
                         = last.args.element
               ELSE last.res = IndexOutOfBounds(j) /\ Self = prev

\* C12: set(row, column, e) returns Err(IndicesOutOfBounds(row, column))
\* exactly when row >= num_rows or column >= num_columns; set_row_major(i, e)
\* and set_column_major(i, e) return Err(IndexOutOfBounds(i)) exactly when
\* i >= num_rows * num_columns; in every other case they return Ok.
C12_WriteErrors ==
  /\ last.op = "set" =>
       last.res = IF \/ last.args.row >= prev.num_rows
                     \/ last.args.column >= prev.num_columns
                    THEN IndicesOutOfBounds(last.args.row, last.args.column)
                    ELSE Ok
  /\ last.op \in {"set_row_major", "set_column_major"} =>
       last.res = IF last.args.index >= prev.num_rows * prev.num_columns
                    THEN IndexOutOfBounds(last.args.index)
                    ELSE Ok

\* the grid after a write of e to cell (r, c) of the grid before
WroteOneCell(before, after, r, c, e) ==
  /\ after.num_rows = before.num_rows
  /\ after.num_columns = before.num_columns
  /\ Len(after.vecgrid) = Len(before.vecgrid)
  /\ get(after, r, c) = Some(e)
  /\ \A r2 \in 0..(before.num_rows - 1), c2 \in 0..(before.num_columns - 1) :
       <<r2, c2>> # <<r, c>> => get(after, r2, c2) = get(before, r2, c2)

\* C13: after set(r, c, e), set_row_major(r * num_columns + c, e) or
\* set_column_major(c * num_rows + r, e) has returned Ok, get(r, c) is
\* Some(e), every other cell holds its previous value and the dimensions
\* are unchanged.
C13_WriteOneCell ==
  (last.op \in {"set", "set_row_major", "set_column_major"} /\ last.res = Ok)
    =>
    \E r \in 0..(prev.num_rows - 1), c \in 0..(prev.num_columns - 1) :
      /\ last.op = "set" => (r = last.args.row /\ c = last.args.column)
      /\ last.op = "set_row_major" =>
           last.args.index = r * prev.num_columns + c
      /\ last.op = "set_column_major" =>
           last.args.index = c * prev.num_rows + r
      /\ WroteOneCell(prev, Self, r, c, last.args.element)

C13_Witness ==
  /\ last.op = "set_column_major" /\ last.res = Ok /\ last.args.index = 3
  /\ num_rows = 3 /\ num_columns = 2
  /\ get(prev, 0, 1) # get(Self, 0, 1)
  /\ get(Self, 0, 1) # get(Self, 1, 1)

\* C14: grid[(row, column)], as Index and as IndexMut, gives the element
\* (the cell) that get / get_mut give when row < num_rows and
\* column < num_columns, and panics exactly when row >= num_rows or
\* column >= num_columns.
C14_IndexOperators ==
  (last.op \in {"index", "index_mut"}) =>
    LET row == last.args.row
        column == last.args.column
    IN  IF row < num_rows /\ column < num_columns
          THEN /\ last.res = Ok
               /\ last.op = "index" =>
                    /\ Some(last.val[1]) = get(Self, row, column)
                    /\ last.val[1] = vecgrid[row * num_columns + column + 1]
               /\ last.op = "index_mut" =>
                    /\ Some(last.val[1]) = get_mut(Self, row, column)
                    /\ last.val[1] = row * num_columns + column
          ELSE last.res = Panic /\ pc = "aborted"

C14_Witness ==
  /\ last.op = "index" /\ last.res = Ok
  /\ last.args.row = 2 /\ last.args.column = 1
  /\ num_rows = 3 /\ num_columns = 2
  /\ last.val[1] # vecgrid[5]

C14_WitnessPanic ==
  /\ last.op = "index_mut" /\ last.res = Panic
  /\ last.args.row = 1 /\ last.args.column = 2
  /\ num_rows = 3 /\ num_columns = 2

\* the dimensions a list of equally long inner sequences stands for
InnerLen(lists) == IF Len(lists) > 0 THEN Len(lists[1]) ELSE 0

\* the grid is nr x nc and the buffer holds nr * nc elements
HasDimensions(nr, nc) ==
  /\ num_rows = nr
  /\ num_columns = nc
  /\ Len(vecgrid) = nr * nc

\* C15: from_rows / from_columns return Ok exactly when all inner sequences
\* have the same length and Err(DimensionMismatch) otherwise;
\* from_row_major / from_column_major(elements, rows, cols) return Ok exactly
\* when elements.len() == rows * cols and Err(DimensionMismatch) otherwise;
\* every Ok result has the declared or inferred dimensions.
C15_EagerConstructors ==
  /\ last.op = "from_rows" =>
       IF Rectangular(last.args.rows)
         THEN /\ last.res = Ok
              /\ HasDimensions(Len(last.args.rows), InnerLen(last.args.rows))
         ELSE last.res = DimensionMismatch /\ pc = "failed"
  /\ last.op = "from_columns" =>
       IF Rectangular(last.args.columns)
         THEN /\ last.res = Ok
              /\ HasDimensions(InnerLen(last.args.columns),
                               Len(last.args.columns))
         ELSE last.res = DimensionMismatch /\ pc = "failed"
  /\ last.op \in {"from_row_major", "from_column_major"} =>
       IF Len(last.args.elements) = last.args.num_rows * last.args.num_columns
         THEN /\ last.res = Ok
              /\ HasDimensions(last.args.num_rows, last.args.num_columns)
         ELSE last.res = DimensionMismatch /\ pc = "failed"

C15_Witness ==
  /\ last.op = "from_row_major" /\ last.res = Ok
  /\ Len(last.args.elements) = 6
  /\ num_rows = 3 /\ num_columns = 2

C15_WitnessMismatch ==
  /\ last.op = "from_columns" /\ last.res = DimensionMismatch
  /\ Len(last.args.columns) = 2
  /\ Len(last.args.columns[1]) = 3 /\ Len(last.args.columns[2]) = 2

\* C16: from_iter_row_major(it, rows, cols) and
\* from_iter_column_major(it, rows, cols) return Err(NotEnoughElements)
\* exactly when the producer yields fewer than rows * cols items, and
\* otherwise Ok with a rows x cols grid built from the first rows * cols
\* items.
C16_FromIter ==
  (last.op \in {"from_iter_row_major", "from_iter_column_major"}) =>
    LET it == last.args.iterator
        nr == last.args.num_rows
        nc == last.args.num_columns
    IN  IF Len(it) < nr * nc
          THEN last.res = NotEnoughElements /\ pc = "failed"
          ELSE /\ last.res = Ok
               /\ HasDimensions(nr, nc)
               /\ \A r \in 0..(nr - 1), c \in 0..(nc - 1) :
                    get(Self, r, c) =
                      Some(it[(IF last.op = "from_iter_row_major"
                                 THEN r * nc + c
                                 ELSE c * nr + r) + 1])

C16_Witness ==
  /\ last.op = "from_iter_column_major" /\ last.res = Ok
  /\ Len(last.args.iterator) = 7
  /\ num_rows = 3 /\ num_columns = 2
  /\ get(Self, 0, 1) # get(Self, 1, 0)

C16_WitnessShort ==
  /\ last.op = "from_iter_column_major" /\ last.res = NotEnoughElements
  /\ Len(last.args.iterator) = 5
  /\ last.args.num_rows = 3 /\ last.args.num_columns = 2

\* C17 (the call as a whole): the from-iterator constructors never pull more than rows * cols
\* items from the producer: from a producer with at least that many items
\* exactly the first rows * cols are taken (none when rows * cols == 0) and
\* the rest is left unconsumed.
C17_PullsAtMost ==
  (last.op \in {"from_iter_row_major", "from_iter_column_major"}) =>
    LET it == last.args.iterator
        total == last.args.num_rows * last.args.num_columns
    IN  /\ last.args.pulled <= total
        /\ Len(it) >= total => last.args.pulled = total
        /\ Len(it) < total => last.args.pulled = Len(it)
        /\ total = 0 => last.args.pulled = 0

C17_Witness ==
  /\ last.op = "from_iter_row_major" /\ last.res = Ok
  /\ Len(last.args.iterator) = 7
  /\ last.args.pulled = 6

C17_WitnessNone ==
  /\ last.op = "from_iter_column_major" /\ last.res = Ok
  /\ Len(last.args.iterator) = 3
  /\ last.args.num_rows = 0 /\ last.args.num_columns = 2
  /\ last.args.pulled = 0

\* C18: filled_by_row_major and filled_by_column_major call the generator
\* exactly rows * cols times and never fail; with v_k the value of the k-th
\* call (k from 0), filled_by_row_major stores v_(r * cols + c) in cell
\* (r, c) and filled_by_column_major stores v_(c * rows + r) in cell (r, c).
C18_FilledBy ==
  (last.op \in {"filled_by_row_major", "filled_by_column_major"}) =>
    LET v == last.args.generator
        nr == last.args.num_rows
        nc == last.args.num_columns
    IN  /\ last.res = Ok
        /\ pc = "returned"
        /\ last.args.calls = nr * nc
        /\ HasDimensions(nr, nc)
        /\ \A r \in 0..(nr - 1), c \in 0..(nc - 1) :
             get(Self, r, c) =
               Some(v[(IF last.op = "filled_by_row_major"
                         THEN r * nc + c
                         ELSE c * nr + r) + 1])

C18_Witness ==
  /\ last.op = "filled_by_column_major" /\ last.res = Ok
  /\ num_rows = 3 /\ num_columns = 2
  /\ last.args.generator[4] # last.args.generator[2]
  /\ get(Self, 0, 1) = Some(last.args.generator[4])

\* the number of items a producer can yield, up to a limit
Available(producer, limit) ==
  IF producer.endless \/ Len(producer.items) > limit
    THEN limit
    ELSE Len(producer.items)

\* C17 (one pull at a time): a from-iterator constructor never pulls more
\* than rows * cols items from the producer; once it has returned it has
\* pulled the first rows * cols items, or all the producer had if that was
\* fewer (none when rows * cols == 0), and it does return, on an endless
\* producer too.
C17_TakesAndStops ==
  /\ [](last.args.pulled <= num_rows * num_columns)
  /\ [](pc # "collecting" =>
          /\ last.args.pulled
               = Available(last.args.iterator, num_rows * num_columns)
          /\ last.res = Ok <=> last.args.pulled = num_rows * num_columns
          /\ last.op = "from_iter_row_major" /\ last.res = Ok =>
               \A k \in 1..Len(vecgrid) :
                 Some(vecgrid[k]) = producer_next(last.args.iterator, k - 1))
  /\ <>(pc \in {"returned", "failed"})

C17_WitnessEndless ==
  /\ pc = "returned"
  /\ last.args.iterator.endless
  /\ num_rows = 3 /\ num_columns = 2
  /\ last.args.pulled = 6
  /\ vecgrid[1] # vecgrid[2]

C17_WitnessEndlessNone ==
  /\ pc = "returned"
  /\ last.args.iterator.endless
  /\ num_rows = 0 /\ num_columns = 2
  /\ last.args.pulled = 0

\* the flat input of a column-major constructor call
FlatInput(call) ==
  IF call.op = "from_column_major"
    THEN call.args.elements
    ELSE call.args.iterator

\* C19: when from_column_major(E, rows, cols) or
\* from_iter_column_major(E, rows, cols) succeeds, cell (r, c) holds
\* E[c * rows + r] for every r < rows, c < cols, and as_column_major()
\* returns the first rows * cols items of E in their original order.
C19_ColumnMajorTransposed ==
  /\ (/\ last.op \in {"from_column_major", "from_iter_column_major"}
      /\ last.res = Ok) =>
       \A r \in 0..(last.args.num_rows - 1),
          c \in 0..(last.args.num_columns - 1) :
         get(Self, r, c) = Some(FlatInput(last)[c * last.args.num_rows + r + 1])
  /\ (/\ last.op = "as_column_major"
      /\ earlier.set
      /\ earlier.call.op \in {"from_column_major", "from_iter_column_major"})
       =>
       /\ last.res = Ok
       /\ last.val = SubSeq(FlatInput(earlier.call), 1, num_rows * num_columns)

C19_Witness ==
  /\ last.op = "as_column_major" /\ last.res = Ok
  /\ earlier.set /\ earlier.call.op = "from_iter_column_major"
  /\ Len(earlier.call.args.iterator) = 7
  /\ num_rows = 3 /\ num_columns = 2
  /\ last.val # vecgrid

C19_WitnessCell ==
  /\ last.op = "from_column_major" /\ last.res = Ok
  /\ num_rows = 3 /\ num_columns = 2
  /\ last.args.elements # vecgrid

\* C20: for every list of columns C that all have the same length,
\* from_columns(C) returns Ok(g) with num_columns == C.len() and num_rows ==
\* the common column length (0 when C is empty), g.get(r, c) == C[c][r] for
\* all valid (r, c), and g.as_columns() == C.
C20_RoundTripColumns ==
  /\ (last.op = "from_columns" /\ Rectangular(last.args.columns)) =>
       /\ last.res = Ok
       /\ num_columns = Len(last.args.columns)
       /\ num_rows = InnerLen(last.args.columns)
       /\ \A r \in 0..(num_rows - 1), c \in 0..(num_columns - 1) :
            get(Self, r, c) = Some(last.args.columns[c + 1][r + 1])
  /\ (/\ last.op = "as_columns"
      /\ earlier.set
      /\ earlier.call.op = "from_columns") =>
       /\ last.res = Ok
       /\ last.val = earlier.call.args.columns

C20_Witness ==
  /\ last.op = "as_columns" /\ last.res = Ok
  /\ earlier.set /\ earlier.call.op = "from_columns"
  /\ num_rows = 3 /\ num_columns = 2
  /\ last.val[1] # last.val[2]
  /\ last.val[1][1] # last.val[1][2]

C20_WitnessNoRows ==
  /\ last.op = "as_columns" /\ last.res = Ok
  /\ earlier.set /\ earlier.call.op = "from_columns"
  /\ num_rows = 0 /\ num_columns = 2
  /\ last.val = <<<<>>, <<>>>>

\* the pairs of row r in column order, and of column c in row order
RowPairs(g, r) == [k \in 1..g.num_columns |-> <<r, k - 1>>]

ColumnPairs(g, c) == [k \in 1..g.num_rows |-> <<k - 1, c>>]

\* the elements, and the buffer offsets, of a sequence of pairs
ElementsAt(g, pairs) ==
  [k \in 1..Len(pairs) |->
     g.vecgrid[pairs[k][1] * g.num_columns + pairs[k][2] + 1]]

OffsetsAt(g, pairs) ==
  [k \in 1..Len(pairs) |-> pairs[k][1] * g.num_columns + pairs[k][2]]

\* C21: row_iter(r) and row_iter_mut(r) return Ok exactly when r < num_rows
\* and then yield the num_columns elements of row r in column order;
\* column_iter(c) and column_iter_mut(c) return Ok exactly when
\* c < num_columns and then yield the num_rows elements of column c in row
\* order; an index out of bounds returns an Err value.
C21_RowColumnIter ==
  /\ (last.op \in {"row_iter", "row_iter_mut"} /\ ~last.args.rev) =>
       IF last.args.index < num_rows
         THEN /\ last.res = Ok
              /\ last.val = IF last.op = "row_iter"
                              THEN ElementsAt(Self, RowPairs(Self, last.args.index))
                              ELSE OffsetsAt(Self, RowPairs(Self, last.args.index))
         ELSE IsErr(last.res)
  /\ (last.op \in {"column_iter", "column_iter_mut"} /\ ~last.args.rev) =>
       IF last.args.index < num_columns
         THEN /\ last.res = Ok
              /\ last.val = IF last.op = "column_iter"
                              THEN ElementsAt(Self, ColumnPairs(Self, last.args.index))
                              ELSE OffsetsAt(Self, ColumnPairs(Self, last.args.index))
         ELSE IsErr(last.res)

\* the iteration shapes over the whole grid: flat ones and nested ones
FlatShapes == {"elements_row_major_iter", "elements_row_major_iter_mut",
               "elements_column_major_iter", "elements_column_major_iter_mut",
               "indices_row_major", "indices_column_major",
               "enumerate_row_major", "enumerate_column_major"}

NestedShapes == {"rows_iter", "rows_iter_mut", "columns_iter",
                 "columns_iter_mut"}

\* C22: a grid with zero rows and N >= 0 columns has num_elements() == 0 and
\* column_len() == 0, and every iteration shape over it (elements in both
\* orders, rows_iter, columns_iter, their mutable forms, the indices and
\* enumerate sequences) is produced without error or abort and yields no
\* element.
C22_ZeroRows ==
  (num_rows = 0 /\ pc # "new" /\ pc # "failed") =>
    /\ num_elements(Self) = 0
    /\ column_len(Self) = 0
    /\ last.op \in FlatShapes => (last.res = Ok /\ last.val = <<>>)
    /\ last.op \in NestedShapes =>
         /\ last.res = Ok
         /\ \A k \in 1..Len(last.val) : last.val[k] = <<>>

IndexedShapes == {"row_iter", "row_iter_mut", "column_iter", "column_iter_mut"}

\* what a shape yields on grid g when it is consumed from the front
ForwardShape(g, op, args) ==
  CASE op = "elements_row_major_iter" -> elements_row_major_iter(g)
    [] op = "elements_row_major_iter_mut" -> elements_row_major_iter_mut(g)
    [] op = "elements_column_major_iter" -> elements_column_major_iter(g)
    [] op = "elements_column_major_iter_mut" ->
         elements_column_major_iter_mut(g)
    [] op = "rows_iter" -> rows_iter(g)
    [] op = "rows_iter_mut" -> rows_iter_mut(g)
    [] op = "columns_iter" -> columns_iter(g)
    [] op = "columns_iter_mut" -> columns_iter_mut(g)
    [] op = "indices_row_major" ->
         [res |-> Ok, val |-> indices_row_major(g.num_rows, g.num_columns)]
    [] op = "indices_column_major" ->
         [res |-> Ok, val |-> indices_column_major(g.num_rows, g.num_columns)]
    [] op = "enumerate_row_major" -> enumerate_row_major(g)
    [] op = "enumerate_column_major" -> enumerate_column_major(g)
    [] op = "row_iter" -> row_iter(g, args.index)
    [] op = "row_iter_mut" -> row_iter_mut(g, args.index)
    [] op = "column_iter" -> column_iter(g, args.index)
    [] op = "column_iter_mut" -> column_iter_mut(g, args.index)

RECURSIVE Mirror(_)
Mirror(items) ==
  IF items = <<>> THEN <<>> ELSE Mirror(Tail(items)) \o <<Head(items)>>

\* the index of a single-row or single-column shape is in range
IndexInRange(op, args) ==
  IF op \in {"row_iter", "row_iter_mut"}
    THEN args.index < num_rows
    ELSE args.index < num_columns

\* C23: every iteration shape (the element, row, column, rows, columns,
\* indices and enumerate sequences and the mutable forms), consumed from the
\* back, yields exactly the mirror of what it yields from the front, with
\* the same length.
C23_Reversal ==
  (/\ last.op \in FlatShapes \cup NestedShapes \cup IndexedShapes
   /\ last.args.rev
   /\ last.op \in IndexedShapes => IndexInRange(last.op, last.args)) =>
    LET forward == ForwardShape(Self, last.op, last.args)
    IN  /\ forward.res = Ok
        /\ last.res = Ok
        /\ Len(last.val) = Len(forward.val)
        /\ last.val = Mirror(forward.val)

\* C24: indices_row_major() yields exactly the num_rows * num_columns pairs,
\* the k-th being (k / num_columns, k % num_columns); indices_column_major()
\* yields the same set, the k-th being (k % num_rows, k / num_rows);
\* enumerate_row_major / enumerate_column_major yield the same pairs in the
\* same order, each with the element get(r, c).
C24_IndexSequences ==
  (/\ last.op \in {"indices_row_major", "indices_column_major",
                   "enumerate_row_major", "enumerate_column_major"}
   /\ ~last.args.rev) =>
    LET row_major == last.op \in {"indices_row_major", "enumerate_row_major"}
        PairAt(k) == IF row_major
                       THEN <<k \div num_columns, k % num_columns>>
                       ELSE <<k % num_rows, k \div num_rows>>
    IN  /\ last.res = Ok
        /\ Len(last.val) = num_rows * num_columns
        /\ \A k \in 0..(Len(last.val) - 1) :
             IF last.op \in {"indices_row_major", "indices_column_major"}
               THEN last.val[k + 1] = PairAt(k)
               ELSE /\ last.val[k + 1][1] = PairAt(k)
                    /\ Some(last.val[k + 1][2])
                         = get(Self, PairAt(k)[1], PairAt(k)[2])

C24_Witness ==
  /\ last.op = "enumerate_column_major" /\ ~last.args.rev
  /\ num_rows = 3 /\ num_columns = 2
  /\ last.val[4][1] = <<0, 1>>
  /\ last.val[4][2] = vecgrid[2]
  /\ vecgrid[2] # vecgrid[4]

C24_WitnessIndices ==
  /\ last.op = "indices_row_major" /\ ~last.args.rev
  /\ num_rows = 3 /\ num_columns = 2
  /\ last.val[4] = <<1, 1>>

\* the offsets are pairwise distinct, inside the buffer, and every cell of
\* the grid is among them
EachCellOnce(offsets) ==
  /\ \A k \in 1..Len(offsets) : offsets[k] >= 0 /\ offsets[k] < Len(vecgrid)
  /\ \A j, k \in 1..Len(offsets) : j # k => offsets[j] # offsets[k]
  /\ Len(offsets) = num_rows * num_columns
  /\ \A r \in 0..(num_rows - 1), c \in 0..(num_columns - 1) :
       \E k \in 1..Len(offsets) : offsets[k] = r * num_columns + c

\* C25: within one call of columns_iter_mut (and of
\* elements_column_major_iter_mut built on it) the buffer offsets
\* i * num_columns + ci handed out are pairwise distinct and each is below
\* the buffer length, so every cell is exposed as a mutable reference
\* exactly once, whether the sequence is consumed from the front, the back
\* or both.
C25_NoAliasing ==
  /\ last.op \in {"columns_iter_mut", "columns_iter_mut_ends"} =>
       /\ last.res = Ok
       /\ Len(last.val) = num_columns
       /\ \A k \in 1..Len(last.val) : Len(last.val[k]) = num_rows
       /\ EachCellOnce(Flatten(last.val))
  /\ last.op \in {"elements_column_major_iter_mut",
                  "elements_column_major_iter_mut_ends"} =>
       /\ last.res = Ok
       /\ EachCellOnce(last.val)

C25_Witness ==
  /\ last.op = "elements_column_major_iter_mut_ends" /\ last.res = Ok
  /\ num_rows = 3 /\ num_columns = 2
  /\ last.args.ends = <<TRUE, FALSE, FALSE, TRUE, FALSE, TRUE>>
  /\ last.val = <<0, 5, 3, 2, 1, 4>>

C25_WitnessColumns ==
  /\ last.op = "columns_iter_mut_ends" /\ last.res = Ok
  /\ num_rows = 3 /\ num_columns = 2
  /\ last.args.outer = <<FALSE, TRUE>>
  /\ last.args.inner = <<TRUE, FALSE, TRUE>>
  /\ last.val = <<<<1, 5, 3>>, <<0, 4, 2>>>>

\* C26: when remove_row(at) or remove_rows(at, n) rejects its position, the
\* error it returns is IndexOutOfBounds(at).
C26_RemoveErrorKind ==
  (last.op \in {"remove_row", "remove_rows"} /\ IsErr(last.res)) =>
    last.res = IndexOutOfBounds(last.args.at)

\* a list with one more item put in at index at
WithItemAt(items, item, at) ==
  SubSeq(items, 1, at) \o <<item>> \o SubSeq(items, at + 1, Len(items))

C27_WitnessErr ==
  /\ last.op = "insert_column" /\ last.res = DimensionMismatch
  /\ Len(last.args.column) = 2 /\ num_rows = 3 /\ num_columns = 2

\* the rows of a grid as a list: the reference list the grid stands for
RowsOf(g) == [k \in 1..g.num_rows |-> RowOf(g, k - 1)]

\* the call is in range on a reference list of rows of the given width
InRangeOnRows(rows, width, op, args) ==
  CASE op = "set" -> args.row < Len(rows) /\ args.column < width
    [] op = "insert_row" -> Len(args.row) = width /\ args.at < Len(rows)
    [] op = "insert_rows" ->
         AllOfWidth(args.rows, width) /\ args.at <= Len(rows)
    [] op = "append_rows" -> AllOfWidth(args.rows, width)
    [] op = "remove_row" -> args.at + 1 <= Len(rows)
    [] op = "remove_rows" -> args.at + args.n <= Len(rows)

\* the reference list after a call that is in range
AppliedToRows(rows, op, args) ==
  CASE op = "set" ->
         [rows EXCEPT ![args.row + 1][args.column + 1] = args.element]
    [] op = "insert_row" -> WithItemAt(rows, args.row, args.at)
    [] op = "insert_rows" ->
         SubSeq(rows, 1, args.at) \o args.rows
           \o SubSeq(rows, args.at + 1, Len(rows))
    [] op = "append_rows" -> rows \o args.rows
    [] op = "remove_row" ->
         SubSeq(rows, 1, args.at) \o SubSeq(rows, args.at + 2, Len(rows))
    [] op = "remove_rows" ->
         SubSeq(rows, 1, args.at)
           \o SubSeq(rows, args.at + args.n + 1, Len(rows))

RowOps == {"set", "insert_row", "insert_rows", "append_rows", "remove_row",
           "remove_rows"}

\* C28: from from_rows(R) on, each set, insert_row, insert_rows,
\* append_rows, remove_row and remove_rows call returns Ok exactly when the
\* same operation is in range on a reference list of equal-length rows;
\* after every call the rows of the grid are the reference list, and
\* num_columns is never changed by a row operation.
C28_RefinesRows ==
  /\ (last.op = "from_rows" /\ last.res = Ok) =>
       (RowsOf(Self) = last.args.rows /\ num_rows = Len(last.args.rows))
  /\ last.op \in RowOps =>
       LET before == RowsOf(prev)
           inrange == InRangeOnRows(before, prev.num_columns,
                                    last.op, last.args)
       IN  /\ last.res # Panic
           /\ last.res = Ok <=> inrange
           /\ num_columns = prev.num_columns
           /\ RowsOf(Self) = IF inrange
                               THEN AppliedToRows(before, last.op, last.args)
                               ELSE before

\* C29: on every well-formed grid, also one with num_columns == 0 (k empty
\* rows, or the empty 0 x 0 grid), rows_iter(), rows_iter_mut() and
\* as_rows() complete without aborting and yield exactly num_rows rows of
\* num_columns elements each; the 'should never fail' expectations of
\* rows_iter and columns_iter are never hit.
C29_RowsIterTotal ==
  /\ last.op \in {"rows_iter", "rows_iter_mut", "as_rows"} =>
       /\ last.res = Ok
       /\ pc = "returned"
       /\ Len(last.val) = num_rows
       /\ \A k \in 1..Len(last.val) : Len(last.val[k]) = num_columns
  /\ last.op \in {"columns_iter", "as_columns"} => last.res = Ok

\* the read-only counterpart of a mutable shape
ReadOnly(shape) ==
  CASE shape = "elements_row_major_iter_mut" -> "elements_row_major_iter"
    [] shape = "elements_column_major_iter_mut" -> "elements_column_major_iter"
    [] shape = "row_iter_mut" -> "row_iter"
    [] shape = "column_iter_mut" -> "column_iter"
    [] shape = "rows_iter_mut" -> "rows_iter"
    [] shape = "columns_iter_mut" -> "columns_iter"

\* the elements at a list of offsets, and at a list of lists of offsets
Deref(g, offsets) == [k \in 1..Len(offsets) |-> g.vecgrid[offsets[k] + 1]]

DerefEach(g, lists) == [k \in 1..Len(lists) |-> Deref(g, lists[k])]

\* a shape's items in one list
Items(shape, val) ==
  IF shape \in NestedShapes THEN Flatten(val) ELSE val

\* C30: each mutable iteration shape visits exactly the cells its read-only
\* counterpart visits, in the same order (elements in both orders, row_iter,
\* column_iter, rows_iter, columns_iter), and a write through the k-th
\* reference it yields changes only the cell the read-only shape yields
\* k-th.
C30_MutableAsReadOnly ==
  /\ (last.op \in MutableShapes /\ ~last.args.rev) =>
       LET readonly == ForwardShape(Self, ReadOnly(last.op), last.args)
       IN  /\ readonly.res = last.res
           /\ last.res = Ok =>
                readonly.val = IF last.op \in NestedShapes
                                 THEN DerefEach(Self, last.val)
                                 ELSE Deref(Self, last.val)
  /\ (last.op = "write_through" /\ last.res = Ok) =>
       LET shape == ReadOnly(last.args.shape)
           before == ForwardShape(prev, shape, last.args)
           after == ForwardShape(Self, shape, last.args)
           k == last.args.k
       IN  /\ before.res = Ok /\ after.res = Ok
           /\ Items(shape, after.val)
                = [Items(shape, before.val) EXCEPT ![k] = last.args.element]
           /\ num_rows = prev.num_rows /\ num_columns = prev.num_columns
           /\ Len(vecgrid) = Len(prev.vecgrid)
           /\ Cardinality({j \in 1..Len(vecgrid) :
                             vecgrid[j] # prev.vecgrid[j]}) <= 1

====
